---- MODULE Spec2Model ----
(***************************************************************************)
(* Model of regex/regex_learning_tool-GUI.py: the Tk application state     *)
(* (pattern, flags, text widget content and highlight tags, status label), *)
(* the handlers begin_payload / payload_action / apply_sample_pattern /    *)
(* generate_sample_python_code, and RichTextRE.populate_re.                *)
(*                                                                         *)
(* Strings that the program scans character by character (the text widget  *)
(* content, the markup source) are sequences of one-character strings.     *)
(* Strings that the program only stores, compares or formats (the pattern, *)
(* status messages, colours) are TLA+ strings; a formatted message is the  *)
(* sequence of the pieces the f-string joins.                              *)
(***************************************************************************)
EXTENDS Integers, Sequences, FiniteSets, TLC

\* ------------------------------------------------------------------------
\* Bounds of the model
\* ------------------------------------------------------------------------

\* Longest text widget content on which a search is run from a fresh state.
MaxLen == 3

\* Longest text widget content in a session of edits and searches.
MaxTyped == 1

\* Longest markup source given to populate_re.
MaxSrcLen == 5

\* ------------------------------------------------------------------------
\* Python's re engine, as far as the patterns of the model use it.
\* A compiled pattern is a tree of nodes; M(...) lists, in the order a
\* backtracking matcher tries them, the states in which a node can end.
\* ------------------------------------------------------------------------

NL == "\n"

Upper == {"A","B","C","D","E","F","G","H","I","J","K","L","M",
          "N","O","P","Q","R","S","T","U","V","W","X","Y","Z"}

LowerOf == [c \in Upper |->
    CASE c = "A" -> "a" [] c = "B" -> "b" [] c = "C" -> "c" [] c = "D" -> "d"
      [] c = "E" -> "e" [] c = "F" -> "f" [] c = "G" -> "g" [] c = "H" -> "h"
      [] c = "I" -> "i" [] c = "J" -> "j" [] c = "K" -> "k" [] c = "L" -> "l"
      [] c = "M" -> "m" [] c = "N" -> "n" [] c = "O" -> "o" [] c = "P" -> "p"
      [] c = "Q" -> "q" [] c = "R" -> "r" [] c = "S" -> "s" [] c = "T" -> "t"
      [] c = "U" -> "u" [] c = "V" -> "v" [] c = "W" -> "w" [] c = "X" -> "x"
      [] c = "Y" -> "y" [] c = "Z" -> "z"]

Lower == {LowerOf[c] : c \in Upper}

Digits == {"0","1","2","3","4","5","6","7","8","9"}

\* \w and \s of the engine (on the ASCII characters)
WordChars == Upper \cup Lower \cup Digits \cup {"_"}

SpaceChars == {" ", "\t", NL, "\r", "\f"}

\* re.IGNORECASE, re.MULTILINE, re.DOTALL, re.VERBOSE
IGNORECASE == 2

MULTILINE == 8

DOTALL == 16

VERBOSE == 64

HasFlag(flags, bit) == (flags \div bit) % 2 = 1

\* Case folding of one character under re.IGNORECASE
Fold(c) == IF c \in Upper THEN LowerOf[c] ELSE c

\* Node constructors
Eps == [t |-> "eps"]

Set(S) == [t |-> "set", cs |-> S, neg |-> FALSE]

NotSet(S) == [t |-> "set", cs |-> S, neg |-> TRUE]

Lit(c) == Set({c})

Dot == [t |-> "dot"]

Bol == [t |-> "bol"]

Eol == [t |-> "eol"]

Wb == [t |-> "wb"]

Cat(a, b) == [t |-> "cat", l |-> a, r |-> b]

Alt(a, b) == [t |-> "alt", l |-> a, r |-> b]

Star(a) == [t |-> "star", n |-> a, greedy |-> TRUE]

LazyStar(a) == [t |-> "star", n |-> a, greedy |-> FALSE]

Plus(a) == Cat(a, Star(a))

LazyPlus(a) == Cat(a, LazyStar(a))

Opt(a) == Alt(a, Eps)

Grp(k, a) == [t |-> "grp", k |-> k, n |-> a]

Ref(k) == [t |-> "ref", k |-> k]

Look(a) == [t |-> "look", n |-> a]

RECURSIVE Rep(_, _)
Rep(a, k) == IF k = 1 THEN a ELSE Cat(a, Rep(a, k - 1))

RECURSIVE CatAll(_)
CatAll(ns) == IF Len(ns) = 1 THEN ns[1] ELSE Cat(ns[1], CatAll(Tail(ns)))

\* A group that did not take part in the match (match.groups() gives None)
NoCap == <<-1, -1>>

NoCaps(ng) == [k \in 1..ng |-> NoCap]

\* One character against a set node, with the flags in force
InSet(c, n, flags) ==
    LET hit == IF HasFlag(flags, IGNORECASE)
               THEN Fold(c) \in {Fold(x) : x \in n.cs}
               ELSE c \in n.cs
    IN  IF n.neg THEN ~hit ELSE hit

IsWordAt(s, i) == i >= 1 /\ i <= Len(s) /\ s[i] \in WordChars

\* Does s continue at pos with the text s[cs+1..ce] (a backreference)?
RefMatches(s, pos, cap, flags) ==
    LET len == cap[2] - cap[1]
    IN  /\ cap # NoCap
        /\ pos + len <= Len(s)
        /\ \A j \in 1..len :
              IF HasFlag(flags, IGNORECASE)
              THEN Fold(s[pos + j]) = Fold(s[cap[1] + j])
              ELSE s[pos + j] = s[cap[1] + j]

\* The end states rs of a group's body, with the group's span recorded
WithCap(rs, k, from) ==
    [j \in 1..Len(rs) |-> [rs[j] EXCEPT !.caps[k] = <<from, rs[j].pos>>]]

\* A lookahead whose body ends in rs: it consumes nothing and keeps the
\* groups of the first way the body matched
Looked(rs, st) ==
    IF rs # <<>> THEN <<[st EXCEPT !.caps = rs[1].caps]>> ELSE <<>>

\* A backreference to the text of capture cap
Referred(s, st, cap, flags) ==
    IF RefMatches(s, st.pos, cap, flags)
    THEN <<[st EXCEPT !.pos = @ + (cap[2] - cap[1])]>>
    ELSE <<>>

RECURSIVE M(_, _, _, _)
RECURSIVE MSeq(_, _, _, _)

\* The end states of node n started in state st = [pos, caps] on s,
\* in the matcher's order of preference.
M(n, s, st, flags) ==
    CASE n.t = "eps" -> <<st>>
      [] n.t = "set" ->
            IF st.pos < Len(s) /\ InSet(s[st.pos + 1], n, flags)
            THEN <<[st EXCEPT !.pos = @ + 1]>> ELSE <<>>
      [] n.t = "dot" ->
            IF st.pos < Len(s) /\ (HasFlag(flags, DOTALL) \/ s[st.pos + 1] # NL)
            THEN <<[st EXCEPT !.pos = @ + 1]>> ELSE <<>>
      [] n.t = "bol" ->
            IF \/ st.pos = 0
               \/ HasFlag(flags, MULTILINE) /\ s[st.pos] = NL
            THEN <<st>> ELSE <<>>
      [] n.t = "eol" ->
            IF \/ st.pos = Len(s)
               \/ st.pos = Len(s) - 1 /\ s[Len(s)] = NL
               \/ HasFlag(flags, MULTILINE) /\ s[st.pos + 1] = NL
            THEN <<st>> ELSE <<>>
      [] n.t = "wb" ->
            IF IsWordAt(s, st.pos) # IsWordAt(s, st.pos + 1)
            THEN <<st>> ELSE <<>>
      [] n.t = "cat" -> MSeq(n.r, s, M(n.l, s, st, flags), flags)
      [] n.t = "alt" -> M(n.l, s, st, flags) \o M(n.r, s, st, flags)
      \* every repeated node of the model consumes a character, so a further
      \* round of the repetition always advances
      [] n.t = "star" ->
            IF n.greedy
            THEN MSeq(n, s, M(n.n, s, st, flags), flags) \o <<st>>
            ELSE <<st>> \o MSeq(n, s, M(n.n, s, st, flags), flags)
      [] n.t = "grp" -> WithCap(M(n.n, s, st, flags), n.k, st.pos)
      [] n.t = "ref" -> Referred(s, st, st.caps[n.k], flags)
      [] n.t = "look" -> Looked(M(n.n, s, st, flags), st)

\* Node n continued from each of the states sts, in order
MSeq(n, s, sts, flags) ==
    IF sts = <<>> THEN <<>>
    ELSE M(n, s, Head(sts), flags) \o MSeq(n, s, Tail(sts), flags)

\* Of the end states rs reached from position p, the one the engine takes:
\* the first; with must_advance, the first that consumed something.
Accepted(rs, p, must_advance) ==
    LET ok == SelectSeq(rs, LAMBDA r : ~(must_advance /\ r.pos = p))
    IN  IF ok = <<>> THEN <<>>
        ELSE <<[start |-> p, end |-> ok[1].pos, caps |-> ok[1].caps]>>

\* The match at position p: <<match>> or <<>>
MatchAt(c, s, p, flags, must_advance) ==
    Accepted(M(c.ast, s, [pos |-> p, caps |-> NoCaps(c.groups)], flags),
             p, must_advance)

RECURSIVE SearchFrom(_, _, _, _, _)

\* With m the match at pos: m, or else the search moves one character on
SearchOn(m, c, s, pos, flags) ==
    IF m # <<>> THEN m ELSE SearchFrom(c, s, pos + 1, flags, FALSE)

\* The leftmost match at or after pos; must_advance holds for pos only
SearchFrom(c, s, pos, flags, must_advance) ==
    IF pos > Len(s) THEN <<>>
    ELSE SearchOn(MatchAt(c, s, pos, flags, must_advance), c, s, pos, flags)

\* re.search(pattern, content, flags): <<match>> or <<>>
re_search(c, s, flags) == SearchFrom(c, s, 0, flags, FALSE)

\* Where the scanner looks next after match m: at its end, and after an
\* empty match the next one found at that position must not be empty
\* Variant: the iterator resumes one character after the start of the match
NextScan_rescan(m) == [pos |-> m.start + 1, must_advance |-> FALSE]

NextScan(m) == [pos |-> m.end, must_advance |-> m.end = m.start]

RECURSIVE ScanFrom(_, _, _, _, _)

\* The scan resumed where nxt says
ScanAfter(nxt, c, s, flags) == ScanFrom(c, s, nxt.pos, flags, nxt.must_advance)

\* With m the match found: it is yielded and the scan resumes after it
ScanOn(m, c, s, flags) ==
    IF m = <<>> THEN <<>> ELSE m \o ScanAfter(NextScan(m[1]), c, s, flags)

\* re.finditer(pattern, content, flags), as the list of matches it yields
ScanFrom(c, s, pos, flags, must_advance) ==
    ScanOn(SearchFrom(c, s, pos, flags, must_advance), c, s, flags)

re_finditer(c, s, flags) == ScanFrom(c, s, 0, flags, FALSE)

\* ------------------------------------------------------------------------
\* The patterns of the model: the six of pattern_samples, and four more
\* that a user types into the pattern field.  re.compile on each of them.
\* ------------------------------------------------------------------------

\* (description, pattern, flag letters); a flag string is the sequence of
\* its letters
pattern_samples == <<
    <<"Find capital letters", "[A-Z]", <<"g">> >>,
    <<"Find groups of 4 or more letters", "[A-Z]{4,}", <<"g", "i">> >>,
    <<"Find cash or bucket or 3 letter words with A in the middle",
      "cash|bucket|\\b\\wa\\w\\b", <<"g", "i">> >>,
    <<"Find North American phone numbers, eg +1-416-123-4567",
      "(?:\\+1-)?\\d{3}-\\d{3}-\\d{4}", <<"g">> >>,
    <<"Find double words", "\\b([A-Z]+) +\\1\\b", <<"g", "i">> >>,
    <<"Find words appearing twice anywhere",
      "\\b([A-Z]+)\\b(?=.*?\\1\\b)", <<"g", "i", "s">> >> >>

\* Patterns typed by the user: the empty field, an alternation whose first
\* branch is empty, an anchored letter, a letter and any character, and an
\* unbalanced parenthesis.
TypedPatterns == {"", "|a", "^a", "a.", "("}

Patterns == TypedPatterns \cup {pattern_samples[k][2] : k \in 1..Len(pattern_samples)}

Word(cs) == CatAll([j \in 1..Len(cs) |-> Lit(cs[j])])

Compiled(ast, groups) == [ok |-> TRUE, ast |-> ast, groups |-> groups]

CompileError(msg) == [ok |-> FALSE, msg |-> msg]

\* re.compile(pattern): the compiled pattern, or the re.error it raises
Compile(p) ==
    CASE p = "" -> Compiled(Eps, 0)
      [] p = "|a" -> Compiled(Alt(Eps, Lit("a")), 0)
      [] p = "^a" -> Compiled(Cat(Bol, Lit("a")), 0)
      [] p = "a." -> Compiled(Cat(Lit("a"), Dot), 0)
      [] p = "(" -> CompileError("missing ), unterminated subpattern at position 0")
      [] p = "[A-Z]" -> Compiled(Set(Upper), 0)
      [] p = "[A-Z]{4,}" -> Compiled(Cat(Rep(Set(Upper), 4), Star(Set(Upper))), 0)
      [] p = "cash|bucket|\\b\\wa\\w\\b" ->
            Compiled(Alt(Word(<<"c","a","s","h">>),
                     Alt(Word(<<"b","u","c","k","e","t">>),
                         CatAll(<<Wb, Set(WordChars), Lit("a"), Set(WordChars), Wb>>))), 0)
      [] p = "(?:\\+1-)?\\d{3}-\\d{3}-\\d{4}" ->
            Compiled(CatAll(<<Opt(Word(<<"+","1","-">>)), Rep(Set(Digits), 3), Lit("-"),
                              Rep(Set(Digits), 3), Lit("-"), Rep(Set(Digits), 4)>>), 0)
      [] p = "\\b([A-Z]+) +\\1\\b" ->
            Compiled(CatAll(<<Wb, Grp(1, Plus(Set(Upper))), Plus(Lit(" ")), Ref(1), Wb>>), 1)
      [] p = "\\b([A-Z]+)\\b(?=.*?\\1\\b)" ->
            Compiled(CatAll(<<Wb, Grp(1, Plus(Set(Upper))), Wb,
                              Look(CatAll(<<LazyStar(Dot), Ref(1), Wb>>))>>), 1)

\* ------------------------------------------------------------------------
\* State of the application
\* ------------------------------------------------------------------------

VARIABLES
    av_pattern,     \* root.av_pattern: the pattern field
    av_flag_g,      \* root.av_flag_g .. av_flag_s: the checkboxes, 0 or 1
    av_flag_i,
    av_flag_m,
    av_flag_s,
    text,           \* root.text: the content of the text widget
    tags,           \* the highlight tags of the text widget, in creation order
    av_statusmsg,   \* root.av_statusmsg: the status message
    statusmsg_fg,   \* foreground colour of the status label
    popup,          \* the popup window open, if any
    last,           \* the handler that ran last and how it ended
    src,            \* populate_re: content
    lastpos,        \* populate_re: lastpos
    scan,           \* populate_re: where re.finditer resumes
    inserted,       \* populate_re: what was inserted into the widget so far
    pc              \* populate_re: "idle", "loop" or "done"

gui_vars == <<av_pattern, av_flag_g, av_flag_i, av_flag_m, av_flag_s, text,
              tags, av_statusmsg, statusmsg_fg, popup, last>>

render_vars == <<src, lastpos, scan, inserted, pc>>

vars == <<av_pattern, av_flag_g, av_flag_i, av_flag_m, av_flag_s, text,
          tags, av_statusmsg, statusmsg_fg, popup, last,
          src, lastpos, scan, inserted, pc>>

\* Characters of the text widget contents explored
TextChars == {"a", "A", NL}

Contents == UNION {[1..n -> TextChars] : n \in 0..MaxLen}

\* Characters the user types during a session
TypedChars == {"a", NL}

TypedContents == UNION {[1..n -> TypedChars] : n \in 0..MaxTyped}

highlight_colours == <<"cyan", "yellow">>

\* str(i) of a small integer
str(i) == CASE i = 0 -> "0" [] i = 1 -> "1" [] i = 2 -> "2" [] i = 3 -> "3"
            [] i = 4 -> "4" [] i = 5 -> "5" [] i = 6 -> "6" [] i = 7 -> "7"
            [] i = 8 -> "8" [] i = 9 -> "9" [] i = 10 -> "10" [] i = 11 -> "11"
            [] i = 12 -> "12" [] i = 13 -> "13" [] i = 14 -> "14"

\* report_status(selfie, message, category): the message and its colour
report_status(message, category) ==
    [msg |-> message, fg |-> IF category = "error" THEN "red" ELSE "black"]

\* The flags value payload_action hands to the engine
payload_flags(fi, fm, fs) ==
      (IF fi = 1 THEN IGNORECASE ELSE 0)
    + (IF fm = 1 THEN MULTILINE ELSE 0)
    + (IF fs = 1 THEN DOTALL ELSE 0)

\* Variant: the test of the global flag inverted
just1_inverted(fg) == fg = 1

\* just1 = selfie.av_flag_g.get() == 0
just1_of(fg) == fg = 0

\* Variant: the existing tags are left in place
tag_delete_none(ts) == ts

\* for tag in selfie.text.tag_names(): selfie.text.tag_delete(tag)
tag_delete_all(ts) == <<>>

\* Variant: the end offset taken as inclusive
tag_range_inclusive(m) == [start |-> m.start, end |-> m.end + 1]

\* The range given to tag_add for a match
tag_range(m) == [start |-> m.start, end |-> m.end]

\* Variant: the colours taken in list order, the first colour first
tag_background_shifted(i) == highlight_colours[((i + 1) % 2) + 1]

\* The colour given to tag_config for the i-th match
tag_background(i) == highlight_colours[(i % 2) + 1]

\* tag_add and tag_config for the i-th match
new_tag(i, m) ==
    [name |-> <<"match", str(i)>>, start |-> tag_range(m).start,
     end |-> tag_range(m).end, background |-> tag_background(i)]

\* The loop over re.finditer's matches ms, entered with counter i: what
\* payload_action returns and the tags it has added
RECURSIVE highlight_loop(_, _, _, _)
highlight_loop(ms, i, ts, just1) ==
    IF ms = <<>> THEN [raised |-> FALSE, error |-> "", ok |-> TRUE, n |-> i, tags |-> ts]
    ELSE IF just1
    THEN [raised |-> FALSE, error |-> "", ok |-> TRUE, n |-> 1,
          tags |-> Append(ts, new_tag(i + 1, Head(ms)))]
    ELSE highlight_loop(Tail(ms), i + 1, Append(ts, new_tag(i + 1, Head(ms))), just1)

\* re.finditer(pattern, content, flags=flags) and the loop over it; the
\* call raises re.error when the pattern does not compile
search_and_highlight(c, content, flags, just1, ts) ==
    IF ~c.ok
    THEN [raised |-> TRUE, error |-> c.msg, ok |-> FALSE, n |-> 0, tags |-> ts]
    ELSE highlight_loop(re_finditer(c, content, flags), 0, ts, just1)

\* payload_action(selfie): what it returns or raises, and the tags it leaves
payload_action(pattern, content, fg, fi, fm, fs, ts) ==
    search_and_highlight(Compile(pattern), content, payload_flags(fi, fm, fs),
                         just1_of(fg), tag_delete_all(ts))

\* Variant: the error reported without category='error'
on_exception_info(e) == report_status(<<"Error occurred: ", e>>, "info")

\* except Exception as e: report_status(..., category='error')
on_exception(e) == report_status(<<"Error occurred: ", e>>, "error")

\* begin_payload after payload_action has returned or raised rv
after_payload(rv) ==
    IF rv.raised
    THEN [status |-> on_exception(rv.error), ret |-> "None",
          tags |-> rv.tags, payload |-> TRUE]
    ELSE IF rv.ok
    THEN [status |-> report_status(<<str(rv.n), " matches">>, "info"),
          ret |-> "True", tags |-> rv.tags, payload |-> TRUE]
    ELSE [status |-> report_status(<<str(rv.n)>>, "error"),
          ret |-> "False", tags |-> rv.tags, payload |-> TRUE]

\* Variant: the content checked before the pattern
begin_payload_text_first(pattern, content, fg, fi, fm, fs, ts) ==
    IF Len(content) = 0
    THEN [status |-> report_status(<<"No text provided">>, "error"),
          ret |-> "False", tags |-> ts, payload |-> FALSE]
    ELSE IF pattern = ""
    THEN [status |-> report_status(<<"No pattern provided">>, "error"),
          ret |-> "False", tags |-> ts, payload |-> FALSE]
    ELSE after_payload(payload_action(pattern, content, fg, fi, fm, fs, ts))

\* begin_payload(selfie): the status it reports, what it returns, the tags
\* it leaves and whether it called payload_action
begin_payload(pattern, content, fg, fi, fm, fs, ts) ==
    IF pattern = ""
    THEN [status |-> report_status(<<"No pattern provided">>, "error"),
          ret |-> "False", tags |-> ts, payload |-> FALSE]
    ELSE IF Len(content) = 0
    THEN [status |-> report_status(<<"No text provided">>, "error"),
          ret |-> "False", tags |-> ts, payload |-> FALSE]
    ELSE after_payload(payload_action(pattern, content, fg, fi, fm, fs, ts))

\* 'g' in flags, as the value the IntVar then holds
letter_in(c, letters) == IF \E j \in 1..Len(letters) : letters[j] = c THEN 1 ELSE 0

\* Variant: the s checkbox set from the letter m
apply_sample_pattern_m_for_s(pattern, flags) ==
    [pattern |-> pattern,
     g |-> letter_in("g", flags), i |-> letter_in("i", flags),
     m |-> letter_in("m", flags), s |-> letter_in("m", flags),
     status |-> report_status(<<"=> /", pattern, "/">> \o flags, "info")]

\* apply_sample_pattern(selfie, pattern, flags)
apply_sample_pattern(pattern, flags) ==
    [pattern |-> pattern,
     g |-> letter_in("g", flags), i |-> letter_in("i", flags),
     m |-> letter_in("m", flags), s |-> letter_in("s", flags),
     status |-> report_status(<<"=> /", pattern, "/">> \o flags, "info")]

\* ' | '.join(flags)
RECURSIVE join(_, _)
join(sep, xs) ==
    IF Len(xs) = 0 THEN <<>>
    ELSE IF Len(xs) = 1 THEN xs
    ELSE <<xs[1], sep>> \o join(sep, Tail(xs))

\* The flag names generate_sample_python_code collects
code_flags(fi, fm, fs) ==
       (IF fi = 1 THEN <<"re.IGNORECASE">> ELSE <<>>)
    \o (IF fm = 1 THEN <<"re.MULTILINE">> ELSE <<>>)
    \o (IF fs = 1 THEN <<"re.DOTALL">> ELSE <<>>)

\* Variant: the test of the global flag inverted
code_call_inverted(fg, flagstr) ==
    IF fg = 1
    THEN <<"match = re.search(pattern, content">> \o flagstr \o <<")">>
         \o <<"\nif match:">>
         \o <<"\n    print(f'Match: {match.start()}->{match.end()} = {match.group()}')">>
    ELSE <<"for i,match in enumerate(re.finditer(pattern, content">> \o flagstr \o <<")):">>
         \o <<"\n    print(f'Match {i}: {match.start()}->{match.end()} = {match.group()}')">>

\* The statement that does the search
code_call(fg, flagstr) ==
    IF fg = 0
    THEN <<"match = re.search(pattern, content">> \o flagstr \o <<")">>
         \o <<"\nif match:">>
         \o <<"\n    print(f'Match: {match.start()}->{match.end()} = {match.group()}')">>
    ELSE <<"for i,match in enumerate(re.finditer(pattern, content">> \o flagstr \o <<")):">>
         \o <<"\n    print(f'Match {i}: {match.start()}->{match.end()} = {match.group()}')">>

\* flagstr = ', flags=' + ' | '.join(flags), or ''
code_flagstr(flags) ==
    IF Len(flags) > 0 THEN <<", flags=">> \o join(" | ", flags) ELSE <<>>

\* generate_sample_python_code(selfie): the text of the code, piece by piece
generate_sample_python_code(pattern, content, fg, fi, fm, fs) ==
       <<"import re\npattern = r\"",
         IF pattern = "" THEN "Your pattern goes here" ELSE pattern,
         "\"\ncontent = \"\"\"">>
    \o (IF Len(content) = 0 THEN <<"Your sample text goes here">> ELSE content)
    \o <<"\"\"\"\n">>
    \o code_call(fg, code_flagstr(code_flags(fi, fm, fs)))

NoPopup == [title |-> "", message |-> <<>>]

\* show_popup_message(title, message)
show_popup_message(title, message) == [title |-> title, message |-> message]

\* A character typed at offset p: a tag's range moves or grows with it
tag_after_insert(t, p) ==
    IF p <= t.start THEN [t EXCEPT !.start = @ + 1, !.end = @ + 1]
    ELSE IF p < t.end THEN [t EXCEPT !.end = @ + 1]
    ELSE t

\* The character at offset p deleted: a tag's range moves or shrinks
tag_after_delete(t, p) ==
    IF p < t.start THEN [t EXCEPT !.start = @ - 1, !.end = @ - 1]
    ELSE IF p < t.end THEN [t EXCEPT !.end = @ - 1]
    ELSE t

\* The record of the handler that ran last: its name; for begin_payload what
\* it returned, whether it called payload_action and how many tags the text
\* widget held when it started; and whether begin_payload's except clause
\* has caught an error so far
Idle == [op |-> "none", ret |-> "None", payload |-> FALSE, before |-> 0,
         caught |-> FALSE]

Ran(op, was) == [op |-> op, ret |-> "None", payload |-> FALSE, before |-> 0,
                 caught |-> was.caught]

RanPayload(o, ts, was) ==
    [op |-> "begin_payload", ret |-> o.ret, payload |-> o.payload,
     before |-> Len(ts), caught |-> was.caught \/ o.ret = "None"]

\* ------------------------------------------------------------------------
\* RichTextRE.populate_re
\* ------------------------------------------------------------------------

\* Characters of the markup sources explored
SrcChars == {"-", "#", " ", "*", "_", "x", NL}

Sources == UNION {[1..n -> SrcChars] : n \in 0..MaxSrcLen}

\* Sources that hold one construct inside another: italic inside bold, bold
\* inside a list line, bold inside italic, and a heading line followed by
\* a line with an italic
NestedSources ==
    {<<"*", "*", "_", "x", "_", "*", "*">>,
     <<"-", " ", "*", "*", "x", "*", "*">>,
     <<"_", "*", "*", "x", "*", "*", "_">>,
     <<"#", " ", "_", "x", "_", NL, "_", "x", "_">>}

\* The bullet glyph "•"
BULLET == "u2022"

\* reo_all = re.compile(all_patterns, flags=re.X | re.MULTILINE)
reo_all ==
    Compiled(
        Alt(Grp(1, CatAll(<<Bol, Lit("-"), Set(SpaceChars), Grp(2, Plus(Dot)), Eol>>)),
        Alt(Grp(3, CatAll(<<Bol, Lit("#"), Set(SpaceChars), Grp(4, Plus(Dot)), Eol>>)),
        Alt(Grp(5, CatAll(<<Lit("*"), Lit("*"), Grp(6, LazyPlus(NotSet({"*"}))),
                            Lit("*"), Lit("*")>>)),
            Grp(7, CatAll(<<Lit("_"), Grp(8, LazyPlus(NotSet({"_"}))), Lit("_")>>))))),
        8)

reo_flags == VERBOSE + MULTILINE

\* content[a:b]
Slice(s, a, b) == SubSeq(s, a + 1, b)

\* match.groups()[k-1] as a truth value: the group took part and is not ''
Truthy(cap) == cap # NoCap /\ cap[2] > cap[1]

\* match.groups()[k-1]
GroupText(s, cap) == Slice(s, cap[1], cap[2])

\* Text.insert('end', chars, tag): the widget holds runs of tagged text;
\* inserting the empty string changes nothing
insert(w, chars, tag) ==
    IF chars = <<>> THEN w ELSE Append(w, [text |-> chars, tag |-> tag])

\* insert_bullet(index, text)
insert_bullet(w, chars) == insert(w, <<BULLET, " ">> \o chars, "bullet")

\* if lastpos + 1 != start_at: the unformatted text before the match
insert_before(w, s, lp, start_at) ==
    IF lp + 1 # start_at THEN insert(w, Slice(s, lp, start_at), "plain") ELSE w

\* The branch taken for the populated group
insert_match(w, s, m) ==
    IF Truthy(m.caps[1]) THEN insert_bullet(w, GroupText(s, m.caps[2]) \o <<NL>>)
    ELSE IF Truthy(m.caps[3]) THEN insert(w, GroupText(s, m.caps[4]) \o <<NL>>, "h1")
    ELSE IF Truthy(m.caps[5]) THEN insert(w, GroupText(s, m.caps[6]), "bold")
    ELSE insert(w, GroupText(s, m.caps[8]), "italic")

\* What re.finditer(reo_all, content) yields next: <<match>> or <<>>
next_match == SearchFrom(reo_all, src, scan.pos, reo_flags, scan.must_advance)

\* populate_re is called: lastpos = 0, the iterator is created
populate_re_call ==
    /\ pc = "idle"
    /\ pc' = "loop"
    /\ lastpos' = 0
    /\ scan' = [pos |-> 0, must_advance |-> FALSE]
    /\ inserted' = <<>>
    /\ UNCHANGED <<src, gui_vars>>

\* One round of the for loop
populate_re_match ==
    /\ pc = "loop"
    /\ next_match # <<>>
    /\ \E m \in {next_match[1]} :
           /\ inserted' = insert_match(insert_before(inserted, src, lastpos, m.start),
                                       src, m)
           /\ lastpos' = m.end
           /\ scan' = NextScan(m)
    /\ UNCHANGED <<src, pc, gui_vars>>

\* The iterator is exhausted: the trailing text is inserted
populate_re_finish ==
    /\ pc = "loop"
    /\ next_match = <<>>
    /\ inserted' = insert(inserted, Slice(src, lastpos, Len(src)), "plain")
    /\ pc' = "done"
    /\ UNCHANGED <<src, lastpos, scan, gui_vars>>

\* ------------------------------------------------------------------------
\* The handlers of the application
\* ------------------------------------------------------------------------

\* The "Find matches" button, or ENTER in the pattern field
BeginPayload ==
    /\ popup = NoPopup
    /\ \E o \in {begin_payload(av_pattern, text, av_flag_g, av_flag_i, av_flag_m,
                                av_flag_s, tags)} :
           /\ av_statusmsg' = o.status.msg
           /\ statusmsg_fg' = o.status.fg
           /\ tags' = o.tags
           /\ last' = RanPayload(o, tags, last)
    /\ UNCHANGED <<av_pattern, av_flag_g, av_flag_i, av_flag_m, av_flag_s, text,
                   popup, render_vars>>

\* Help > Sample patterns > the k-th entry
ApplySamplePattern(k) ==
    /\ popup = NoPopup
    /\ \E o \in {apply_sample_pattern(pattern_samples[k][2], pattern_samples[k][3])} :
           /\ av_pattern' = o.pattern
           /\ av_flag_g' = o.g
           /\ av_flag_i' = o.i
           /\ av_flag_m' = o.m
           /\ av_flag_s' = o.s
           /\ av_statusmsg' = o.status.msg
           /\ statusmsg_fg' = o.status.fg
    /\ last' = Ran("apply_sample_pattern", last)
    /\ UNCHANGED <<text, tags, popup, render_vars>>

\* File > Generate Python code
GenerateCode ==
    /\ popup = NoPopup
    /\ popup' = show_popup_message("Sample Python code",
                    generate_sample_python_code(av_pattern, text, av_flag_g,
                                                av_flag_i, av_flag_m, av_flag_s))
    /\ last' = Ran("edit", last)
    /\ UNCHANGED <<av_pattern, av_flag_g, av_flag_i, av_flag_m, av_flag_s, text,
                   tags, av_statusmsg, statusmsg_fg, render_vars>>

\* The popup's Close button
ClosePopup ==
    /\ popup # NoPopup
    /\ popup' = NoPopup
    /\ last' = Ran("edit", last)
    /\ UNCHANGED <<av_pattern, av_flag_g, av_flag_i, av_flag_m, av_flag_s, text,
                   tags, av_statusmsg, statusmsg_fg, render_vars>>

\* The user replaces the pattern field's text by the typed pattern p
EditPattern(p) ==
    /\ popup = NoPopup
    /\ p # av_pattern
    /\ av_pattern' = p
    /\ last' = Ran("edit", last)
    /\ UNCHANGED <<av_flag_g, av_flag_i, av_flag_m, av_flag_s, text, tags,
                   av_statusmsg, statusmsg_fg, popup, render_vars>>

\* The user clicks a checkbox
ToggleFlag(f) ==
    /\ popup = NoPopup
    /\ av_flag_g' = IF f = "g" THEN 1 - av_flag_g ELSE av_flag_g
    /\ av_flag_i' = IF f = "i" THEN 1 - av_flag_i ELSE av_flag_i
    /\ av_flag_m' = IF f = "m" THEN 1 - av_flag_m ELSE av_flag_m
    /\ av_flag_s' = IF f = "s" THEN 1 - av_flag_s ELSE av_flag_s
    /\ last' = Ran("edit", last)
    /\ UNCHANGED <<av_pattern, text, tags, av_statusmsg, statusmsg_fg, popup,
                   render_vars>>

\* The user types character c at offset p of the text widget
InsertChar(p, c) ==
    /\ popup = NoPopup
    /\ Len(text) < MaxTyped
    /\ p <= Len(text)
    /\ text' = SubSeq(text, 1, p) \o <<c>> \o SubSeq(text, p + 1, Len(text))
    /\ tags' = [j \in 1..Len(tags) |-> tag_after_insert(tags[j], p)]
    /\ last' = Ran("edit", last)
    /\ UNCHANGED <<av_pattern, av_flag_g, av_flag_i, av_flag_m, av_flag_s,
                   av_statusmsg, statusmsg_fg, popup, render_vars>>

\* The user deletes the character at offset p of the text widget
DeleteChar(p) ==
    /\ popup = NoPopup
    /\ p < Len(text)
    /\ text' = SubSeq(text, 1, p) \o SubSeq(text, p + 2, Len(text))
    /\ tags' = [j \in 1..Len(tags) |-> tag_after_delete(tags[j], p)]
    /\ last' = Ran("edit", last)
    /\ UNCHANGED <<av_pattern, av_flag_g, av_flag_i, av_flag_m, av_flag_s,
                   av_statusmsg, statusmsg_fg, popup, render_vars>>

\* ------------------------------------------------------------------------
\* Specifications
\* ------------------------------------------------------------------------

\* The application variables as the script sets them (lines 228-246, 236)
GuiStart ==
    /\ av_pattern = "[A-Z]"
    /\ av_flag_g = 1
    /\ av_flag_i = 0
    /\ av_flag_m = 0
    /\ av_flag_s = 0
    /\ tags = <<>>
    /\ av_statusmsg = <<"Ready!">>
    /\ statusmsg_fg = "black"
    /\ popup = NoPopup
    /\ last = Idle

RenderIdle ==
    /\ src = <<>>
    /\ lastpos = 0
    /\ scan = [pos |-> 0, must_advance |-> FALSE]
    /\ inserted = <<>>
    /\ pc = "idle"

\* A session: the user has put a short text into the text widget, and
\* then edits the inputs, picks sample patterns and runs searches
Init ==
    /\ GuiStart
    /\ text \in TypedContents
    /\ RenderIdle

Next ==
    \/ BeginPayload
    \/ \E k \in 1..Len(pattern_samples) : ApplySamplePattern(k)
    \/ \E p \in TypedPatterns : EditPattern(p)
    \/ \E f \in {"g", "i", "m", "s"} : ToggleFlag(f)
    \/ \E p \in 0..MaxTyped, c \in TypedChars : InsertChar(p, c)
    \/ \E p \in 0..MaxTyped : DeleteChar(p)

Spec == Init /\ [][Next]_vars

\* A search, and the code generated, in every combination of pattern, flags
\* and content the user can have set up before the first search
SearchInit ==
    /\ av_pattern \in Patterns
    /\ av_flag_g \in {0, 1}
    /\ av_flag_i \in {0, 1}
    /\ av_flag_m \in {0, 1}
    /\ av_flag_s \in {0, 1}
    /\ text \in Contents
    /\ tags = <<>>
    /\ av_statusmsg = <<"Ready!">>
    /\ statusmsg_fg = "black"
    /\ popup = NoPopup
    /\ last = Idle
    /\ RenderIdle

SearchNext ==
    \/ BeginPayload
    \/ GenerateCode
    \/ ClosePopup

SpecSearch == SearchInit /\ [][SearchNext]_vars

\* populate_re on every markup source up to MaxSrcLen characters, and on
\* the sources with nested constructs
RenderInit ==
    /\ GuiStart
    /\ text = <<>>
    /\ src \in Sources \cup NestedSources
    /\ lastpos = 0
    /\ scan = [pos |-> 0, must_advance |-> FALSE]
    /\ inserted = <<>>
    /\ pc = "idle"

RenderNext ==
    \/ populate_re_call
    \/ populate_re_match
    \/ populate_re_finish

SpecRender == RenderInit /\ [][RenderNext]_vars

\* ------------------------------------------------------------------------
\* Properties
\* ------------------------------------------------------------------------

\* The compiled pattern and the flags value of the current inputs
CurCompiled == Compile(av_pattern)

CurFlags == payload_flags(av_flag_i, av_flag_m, av_flag_s)

\* begin_payload ran last and got as far as payload_action
Searched == last.op = "begin_payload" /\ last.payload

\* The status label shows an error, or shows the count n
ShowsError == statusmsg_fg = "red"

ShowsCount(n) == av_statusmsg = <<str(n), " matches">> /\ statusmsg_fg = "black"

SameSpan(t, m) == t.start = m.start /\ t.end = m.end

\* C1: after a search with the global flag off on a pattern that compiles,
\* if re.search finds a match under the same flags then exactly one span is
\* on the text, with the bounds of that match, and the status reports 1
\* match; if it finds none, no span is on the text and the status reports 0.
C1_FirstMatchOnly ==
    (Searched /\ av_flag_g = 0 /\ CurCompiled.ok) =>
        \E first \in {re_search(CurCompiled, text, CurFlags)} :
            IF first # <<>>
            THEN Len(tags) = 1 /\ SameSpan(tags[1], first[1]) /\ ShowsCount(1)
            ELSE tags = <<>> /\ ShowsCount(0)

\* C1 witness: the content holds several matches and one span was applied
C1_Witness ==
    /\ Searched /\ av_flag_g = 0 /\ CurCompiled.ok
    /\ Len(re_finditer(CurCompiled, text, CurFlags)) >= 2
    /\ Len(tags) = 1

\* The spans on the text never overlap: each ends where the next starts,
\* or before
NonOverlapping == \A j \in 1..Len(tags) - 1 : tags[j].end <= tags[j + 1].start

StrictlyIncreasingStarts ==
    \A j \in 1..Len(tags) - 1 : tags[j].start < tags[j + 1].start

\* Starts increase, except that an empty span may be followed by a
\* non-empty span that starts at the same offset
IncreasingStarts ==
    \A j \in 1..Len(tags) - 1 :
        \/ tags[j].start < tags[j + 1].start
        \/ /\ tags[j].start = tags[j + 1].start
           /\ tags[j].end = tags[j].start
           /\ tags[j + 1].end > tags[j + 1].start

\* One span per match of the engine's iteration, and the count reported
CountsEngineMatches ==
    \E ms \in {re_finditer(CurCompiled, text, CurFlags)} :
        /\ Len(tags) = Len(ms)
        /\ \A j \in 1..Len(ms) : SameSpan(tags[j], ms[j])
        /\ ShowsCount(Len(ms))

\* C2 as stated: after a search with the global flag on, the spans are in
\* strictly increasing order of start offset, mutually non-overlapping, and
\* as many as the engine's iteration yields.
C2_StrictlyIncreasing ==
    (Searched /\ av_flag_g = 1 /\ CurCompiled.ok) =>
        StrictlyIncreasingStarts /\ NonOverlapping /\ CountsEngineMatches

\* C2 amended: after a search with the global flag on, the spans are
\* mutually non-overlapping and in increasing order of start offset, where
\* two consecutive spans share a start only when the first is empty and the
\* second is not; their number, bounds and the count reported are those of
\* the matches the engine's iteration yields.
C2_Ordered ==
    (Searched /\ av_flag_g = 1 /\ CurCompiled.ok) =>
        IncreasingStarts /\ NonOverlapping /\ CountsEngineMatches

\* C2 witness: an empty span followed by a non-empty one at the same
\* offset, and a further span after them
C2_Witness ==
    /\ Searched /\ av_flag_g = 1 /\ CurCompiled.ok
    /\ Len(tags) >= 3
    /\ \E j \in 1..Len(tags) - 1 :
          tags[j].start = tags[j + 1].start /\ tags[j + 1].end > tags[j + 1].start

\* The tag of the k-th match m, as the loop of payload_action makes it
SpanOf(k, m) ==
    [name |-> <<"match", str(k)>>, start |-> m.start, end |-> m.end,
     background |-> IF k % 2 = 1 THEN "yellow" ELSE "cyan"]

SpansOf(ms) == [k \in 1..Len(ms) |-> SpanOf(k, ms[k])]

FirstOf(ms) == IF ms = <<>> THEN <<>> ELSE <<ms[1]>>

\* The spans a search computes from the pattern, flags and content alone
ExpectedTags ==
    IF ~CurCompiled.ok THEN <<>>
    ELSE IF av_flag_g = 0
    THEN SpansOf(FirstOf(re_finditer(CurCompiled, text, CurFlags)))
    ELSE SpansOf(re_finditer(CurCompiled, text, CurFlags))

\* C3: after a search, whatever tags the text widget held before, its tags
\* are exactly the spans that search computed from the pattern, flags and
\* content it read (none when the pattern does not compile); so a second
\* search on the same inputs leaves the same tags as the first.
C3_ExactlyThisRun == Searched => tags = ExpectedTags

\* C3 witness: a search that started with tags on the widget and left tags
C3_Witness == Searched /\ last.before > 0 /\ tags # <<>> /\ Len(tags) # last.before

\* Some character of the text is highlighted
HighlightShown == \E j \in 1..Len(tags) : tags[j].start < tags[j].end

\* C4 as stated: after every begin_payload, either the complete highlight
\* set of the current inputs is shown, or an error is shown in the status
\* and no highlight remains on the text.
C4_NoStaleHighlights ==
    last.op = "begin_payload" =>
        \/ last.ret = "True" /\ tags = ExpectedTags
        \/ ShowsError /\ ~HighlightShown

\* C5: when the pattern does not compile, begin_payload catches the error:
\* it returns (None), the status is red and carries the engine's message;
\* and in every state, also after such an error, begin_payload on a pattern
\* that compiles and a non-empty content returns True and reports a count.
C5_ErrorCaught ==
    (last.op = "begin_payload" /\ av_pattern # "" /\ text # <<>>) =>
        IF ~CurCompiled.ok
        THEN /\ last.ret = "None"
             /\ last.caught
             /\ ShowsError
             /\ av_statusmsg = <<"Error occurred: ", CurCompiled.msg>>
        ELSE /\ last.ret = "True"
             /\ ShowsCount(Len(tags))

\* C5 witness: a successful search after an earlier one raised an error
C5_Witness == last.op = "begin_payload" /\ last.caught /\ last.ret = "True"

\* C6: begin_payload on an empty pattern reports 'No pattern provided', and
\* on a non-empty pattern with empty content 'No text provided', in the
\* error style; it returns False and does not call payload_action.
C6_EmptyInputs ==
    (last.op = "begin_payload" /\ (av_pattern = "" \/ text = <<>>)) =>
        /\ ShowsError
        /\ av_statusmsg = IF av_pattern = "" THEN <<"No pattern provided">>
                          ELSE <<"No text provided">>
        /\ last.ret = "False"
        /\ ~last.payload

\* C6 witness: pattern and content both empty, the pattern reported
C6_Witness ==
    /\ last.op = "begin_payload" /\ av_pattern = "" /\ text = <<>>
    /\ av_statusmsg = <<"No pattern provided">>

\* C7: after a search the k-th span has colour highlight_colours[k mod 2]:
\* the first is yellow (index 1), the second cyan (index 0), and so on, so
\* consecutive spans differ in colour.
C7_Alternation ==
    Searched =>
        /\ \A k \in 1..Len(tags) :
              tags[k].background = IF k % 2 = 1 THEN "yellow" ELSE "cyan"
        /\ \A k \in 1..Len(tags) - 1 : tags[k].background # tags[k + 1].background

\* C7 witness: a search that applied at least three spans
C7_Witness == Searched /\ Len(tags) >= 3

RECURSIVE ConcatTexts(_)
\* The texts of the runs w in order, the bullet glyph of a bullet run (its
\* style) left out
ConcatTexts(w) ==
    IF w = <<>> THEN <<>>
    ELSE (IF w[1].tag = "bullet" THEN SubSeq(w[1].text, 3, Len(w[1].text))
          ELSE w[1].text) \o ConcatTexts(Tail(w))

\* The text a matched construct displays: the inner group of its branch
InnerText(s, m) ==
    IF m.caps[1] # NoCap THEN GroupText(s, m.caps[2])
    ELSE IF m.caps[3] # NoCap THEN GroupText(s, m.caps[4])
    ELSE IF m.caps[5] # NoCap THEN GroupText(s, m.caps[6])
    ELSE GroupText(s, m.caps[8])

RECURSIVE StripMarkup(_, _, _)
\* The source s from offset from on with the markup of the matches ms
\* removed: the text between the matches, and of each match its inner text
StripMarkup(s, ms, from) ==
    IF ms = <<>> THEN Slice(s, from, Len(s))
    ELSE Slice(s, from, ms[1].start) \o InnerText(s, ms[1])
         \o StripMarkup(s, Tail(ms), ms[1].end)

\* C8 as stated: populate_re ends, and the texts it inserted, in order and
\* without regard to style, are the source with only the markup of the
\* matched constructs removed: no other character is dropped or added.
C8_ReconstructsSource ==
    pc = "done" =>
        ConcatTexts(inserted) = StripMarkup(src, re_finditer(reo_all, src, reo_flags), 0)

\* The flags of sample k, as the checkboxes should then stand
SampleHas(k, c) == \E j \in 1..Len(pattern_samples[k][3]) : pattern_samples[k][3][j] = c

\* C9: selecting sample k sets the pattern to the sample's pattern and each
\* of the flags g, i, m, s to 1 when its letter is among the sample's flag
\* letters and to 0 otherwise, whatever they were; the content of the text
\* widget and its tags stay as they were.
C9_SampleOverwrites ==
    [][\A k \in 1..Len(pattern_samples) :
          ApplySamplePattern(k) =>
              /\ av_pattern' = pattern_samples[k][2]
              /\ av_flag_g' = (IF SampleHas(k, "g") THEN 1 ELSE 0)
              /\ av_flag_i' = (IF SampleHas(k, "i") THEN 1 ELSE 0)
              /\ av_flag_m' = (IF SampleHas(k, "m") THEN 1 ELSE 0)
              /\ av_flag_s' = (IF SampleHas(k, "s") THEN 1 ELSE 0)
              /\ text' = text
              /\ tags' = tags]_vars

\* C9 witness: the last sample selected over highlighted text: flags g, i
\* and s are on, m is off, and the highlights are still there
C9_Witness ==
    /\ last.op = "apply_sample_pattern"
    /\ av_pattern = pattern_samples[6][2]
    /\ av_flag_g = 1 /\ av_flag_i = 1 /\ av_flag_m = 0 /\ av_flag_s = 1
    /\ HighlightShown

\* The generated code holds the piece x
HasPiece(code, x) == \E j \in 1..Len(code) : code[j] = x

\* The pieces of the code from the one after the call's opening piece up to
\* its closing piece: the flags argument
RECURSIVE UpTo(_, _)
UpTo(code, closing) ==
    IF code = <<>> \/ code[1] \in closing THEN <<>>
    ELSE <<code[1]>> \o UpTo(Tail(code), closing)

RECURSIVE After(_, _)
After(code, opening) ==
    IF code = <<>> THEN <<>>
    ELSE IF code[1] \in opening THEN Tail(code)
    ELSE After(Tail(code), opening)

CallOpen == {"match = re.search(pattern, content",
             "for i,match in enumerate(re.finditer(pattern, content"}

CallClose == {")", ")):"}

FlagsArgument(code) == UpTo(After(code, CallOpen), CallClose)

\* The engine's value of a name in the flags argument
NamedFlag(x) ==
    CASE x = "re.IGNORECASE" -> IGNORECASE
      [] x = "re.MULTILINE" -> MULTILINE
      [] x = "re.DOTALL" -> DOTALL
      [] OTHER -> 0

RECURSIVE NamedFlags(_)
NamedFlags(arg) ==
    IF arg = <<>> THEN 0 ELSE NamedFlag(arg[1]) + NamedFlags(Tail(arg))

\* The flags argument for the checkboxes i, m, s
ArgumentFor(fi, fm, fs) ==
    CASE fi = 0 /\ fm = 0 /\ fs = 0 -> <<>>
      [] fi = 1 /\ fm = 0 /\ fs = 0 -> <<", flags=", "re.IGNORECASE">>
      [] fi = 0 /\ fm = 1 /\ fs = 0 -> <<", flags=", "re.MULTILINE">>
      [] fi = 0 /\ fm = 0 /\ fs = 1 -> <<", flags=", "re.DOTALL">>
      [] fi = 1 /\ fm = 1 /\ fs = 0 -> <<", flags=", "re.IGNORECASE", " | ", "re.MULTILINE">>
      [] fi = 1 /\ fm = 0 /\ fs = 1 -> <<", flags=", "re.IGNORECASE", " | ", "re.DOTALL">>
      [] fi = 0 /\ fm = 1 /\ fs = 1 -> <<", flags=", "re.MULTILINE", " | ", "re.DOTALL">>
      [] fi = 1 /\ fm = 1 /\ fs = 1 ->
            <<", flags=", "re.IGNORECASE", " | ", "re.MULTILINE", " | ", "re.DOTALL">>

\* C10: the generated code calls re.search exactly when the global flag is
\* off and re.finditer exactly when it is on; its flags argument names the
\* enabled flags among i, m, s joined by ' | ' and is absent when none is
\* enabled; the flags it names add up to the value payload_action passes.
C10_GeneratedCode ==
    popup # NoPopup =>
        /\ HasPiece(popup.message, "match = re.search(pattern, content") <=> av_flag_g = 0
        /\ HasPiece(popup.message, "for i,match in enumerate(re.finditer(pattern, content")
              <=> av_flag_g = 1
        /\ FlagsArgument(popup.message) = ArgumentFor(av_flag_i, av_flag_m, av_flag_s)
        /\ NamedFlags(FlagsArgument(popup.message)) = CurFlags

\* C10 witness: code generated with the global flag off and two flags on
C10_Witness ==
    /\ popup # NoPopup
    /\ av_flag_g = 0 /\ av_flag_i = 1 /\ av_flag_m = 0 /\ av_flag_s = 1
    /\ HasPiece(popup.message, "match = re.search(pattern, content")

\* The unformatted run holding the characters of s from a up to b
PlainRun(s, a, b) == [text |-> Slice(s, a, b), tag |-> "plain"]

\* C11 as stated: in every round of the loop of populate_re the text
\* between lastpos and the start of the match is inserted as an unformatted
\* run, before the run of the match, whenever it is not empty, whatever its
\* length, and nothing is inserted for it only when it is empty; when the
\* matches are exhausted the trailing text is inserted as an unformatted
\* run when it is not empty.
C11_GapsEmitted ==
    [][/\ populate_re_match =>
            \E m \in {next_match[1]} :
                IF lastpos < m.start
                THEN /\ Len(inserted') = Len(inserted) + 2
                     /\ inserted'[Len(inserted) + 1] = PlainRun(src, lastpos, m.start)
                ELSE Len(inserted') = Len(inserted) + 1
       /\ populate_re_finish =>
            IF lastpos < Len(src)
            THEN inserted' = Append(inserted, PlainRun(src, lastpos, Len(src)))
            ELSE inserted' = inserted]_vars

\* The style of the construct a match is: the alternative that matched
OuterStyle(m) ==
    IF m.caps[1] # NoCap THEN "bullet"
    ELSE IF m.caps[3] # NoCap THEN "h1"
    ELSE IF m.caps[5] # NoCap THEN "bold"
    ELSE "italic"

\* The source characters a styled run shows: its text without the bullet
\* glyph and the newline that populate_re adds
RunSource(run) ==
    IF run.tag = "bullet" THEN SubSeq(run.text, 3, Len(run.text) - 1)
    ELSE IF run.tag = "h1" THEN SubSeq(run.text, 1, Len(run.text) - 1)
    ELSE run.text

\* The run is unformatted text taken from s between lo and hi
PlainWithin(run, s, lo, hi) ==
    /\ run.tag = "plain"
    /\ \E a \in lo..hi, b \in lo..hi : a <= b /\ run.text = Slice(s, a, b)

\* C12: populate_re is one pass from left to right. lastpos never
\* decreases. In a round of the loop the match starts at or after lastpos
\* and lastpos moves to its end; the round adds one styled run, which has
\* the style of the matched (outer) construct and shows the whole text
\* inside it, and before it at most one unformatted run, taken from the
\* source between the old lastpos and the match; the last step adds at most
\* one unformatted run taken from the source after lastpos. So the runs come
\* from windows of the source that follow one another, no source character
\* is in two runs, and the text inside a construct gets no run of its own.
C12_SinglePass ==
    [][/\ lastpos' >= lastpos
       /\ populate_re_match =>
            \E m \in {next_match[1]}, n \in {Len(inserted)} :
                /\ lastpos <= m.start
                /\ m.start < m.end
                /\ lastpos' = m.end
                /\ Len(inserted') \in {n + 1, n + 2}
                /\ SubSeq(inserted', 1, n) = inserted
                /\ inserted'[Len(inserted')].tag = OuterStyle(m)
                /\ RunSource(inserted'[Len(inserted')]) = InnerText(src, m)
                /\ Len(inserted') = n + 2 =>
                       PlainWithin(inserted'[n + 1], src, lastpos, m.start)
       /\ populate_re_finish =>
            \/ inserted' = inserted
            \/ /\ Len(inserted') = Len(inserted) + 1
               /\ SubSeq(inserted', 1, Len(inserted)) = inserted
               /\ PlainWithin(inserted'[Len(inserted')], src, lastpos, Len(src))]_vars

\* C12 witness: populate_re has ended on a source whose only match is a
\* construct with another construct inside it, and the widget holds one
\* run, in bold, whose text still has the markup of the inner construct
C12_Witness ==
    /\ pc = "done"
    /\ Len(inserted) = 1
    /\ inserted[1].tag = "bold"
    /\ re_search(reo_all, inserted[1].text, reo_flags) # <<>>

====
